---- MODULE Spec2Model ----
(***************************************************************************)
(* The ghost-workspace prescaler of ws-scheduler: the setpoint controllers *)
(* of pkg/scaler/controller.go and the ws-manager prescale driver          *)
(* (WorkspaceManagerPrescaleDriver) with its status maintainer.            *)
(*                                                                         *)
(* Go's unbuffered channels are modelled as rendezvous: one action moves   *)
(* the sender past its send and runs the receiver's select case.           *)
(*                                                                         *)
(* Times are integers.  A time t has the time of day t % DayLen; tick      *)
(* times and the setpoints' times of day are taken in one location.        *)
(*                                                                         *)
(* Spec is Run with its goroutines and a ConstantSetpointController.  Run  *)
(* cancels its context in a deferred call alone, so inside Run no          *)
(* <-ctx.Done() case is ever ready: those cases are left out of Next       *)
(* (RunReturn is the one of Run's loop, MaintainCtxDone the one of the     *)
(* maintainer's sends).  CtlSpec is one controller driven as the package's *)
(* tests drive it, the context cancelled from outside.  MaintSpec is the   *)
(* supervising loop around maintainWorkspaceStatus with a reader of its    *)
(* channel, the context cancelled from outside.  NewSpec calls the         *)
(* constructors on a configuration.                                        *)
(***************************************************************************)
EXTENDS Integers, Sequences, FiniteSets, TLC

\* ---------------------------------------------------------------- bounds
\* length of a day in time units
DayLen == 3
\* longest setpoint list of a SwitchedSetpointController
MaxSetpoints == 2
\* largest ghost count the controller harness feeds to a controller
MaxGhostIn == 2
\* number of counts the controller harness feeds to a ConstantSetpointController
MaxObs == 2
\* number of ticks the controller harness sends to a TimedFunctionController
MaxTicks == 2

\* number of workspaces of the inventory that the driver did not start
NumWs == 1
\* number of instance ids uuid.NewRandom can return
NumUuid == 2
\* last value of the wall clock, in units of maxGhostStartTime
MaxTime == 1
\* renewal ticks are not taken once status.Count.Ghost has reached this value
MaxGhostCount == 3

\* how far below 0 and above 100 the percentages, and how far around 0 the
\* default setpoints, of the configurations handed to the constructors reach
ConfigMargin == 2

\* tick times: two days
Times == 0 .. (DayLen + DayLen - 1)
Tods == 0 .. (DayLen - 1)
NoTick == -1

\* ------------------------------------------------------------- variables
VARIABLES
    kind,           \* which Controller implementation runs
    Target,         \* ConstantSetpointController.Target
    DefaultSetpoint,\* SwitchedSetpointController.DefaultSetpoint
    Setpoints,      \* SwitchedSetpointController.Setpoints
    ctlPc,          \* controller goroutine: "select", "send" (at res <- diff), "exited"
    setpoint,       \* local setpoint of SwitchedSetpointController.Control
    target,         \* local target of TimedFunctionController.Control
    diff,           \* local diff, the value offered on res
    ctxDone,        \* the context handed to Control has been cancelled
    resClosed,      \* close(res) has run
    tickerStopped,  \* the ticker's stop() has run
    ctlNow,         \* what Now() returned in SwitchedSetpointController.Control
    lastTick,       \* time of the last tick the controller received, NoTick if none
    changed,        \* arguments of the last SetpointChanged call
    obs,            \* ghost counts the harness sent: all of them, in order, to a
                    \* ConstantSetpointController, the last one to the others
    emitted,        \* deltas the harness received from res, recorded as obs is
    ticks,          \* tick times the harness sent to a TimedFunctionController, in order
    reported,       \* values the harness received from the SetpointChanged callback
                    \* of a TimedFunctionController, in order
    newTickerCalled,\* NewTicker has been called
    mPc,            \* maintainWorkspaceStatus: "list", "sendInit", "subscribe", "recv", "send";
                    \* "returned" once its supervising loop has returned
    state,          \* state map of maintainWorkspaceStatus
    outStatus,      \* the status maintainWorkspaceStatus is sending
    drvPc,          \* Run: "select" or "sendCount" (at counts <- status.Count)
    status,         \* status of Run
    startingGhosts, \* startingGhosts of Run: instance id -> time of issue
    now,            \* wall clock
    stopCalled,     \* Stop() has run: wspd.stop and wspd.conn are closed
    lastOp,         \* what the last event of Run did
    replay,         \* maintainer harness: the PENDING event last inserted and what
                    \* the state map and the status were before it
    lastEvent,      \* maintainer harness: the event the subscription delivered last,
                    \* the state map and the status before it, and whether the
                    \* maintainer went on to send a status
    config,         \* the configuration handed to a constructor
    newResult       \* what the constructor called last returned

ctlVars == <<kind, Target, DefaultSetpoint, Setpoints, ctlPc, setpoint, target, diff,
             ctxDone, resClosed, tickerStopped, ctlNow, lastTick, changed, obs, emitted,
             ticks, reported, newTickerCalled>>

drvVars == <<mPc, state, outStatus, drvPc, status, startingGhosts, now, stopCalled, lastOp>>

auxVars == <<replay, lastEvent, config, newResult>>

vars == <<ctlVars, drvVars, auxVars>>

\* ------------------------------------------------ controller.go: helpers
NilSetpoint == [Time |-> -1, Setpoint |-> -1]

\* tod := time.Date(0, 1, 1, t.Hour(), t.Minute(), t.Second(), ...)
TimeOfDay(t) == t % DayLen

\* findSwitchpointFrom returning the entry the scan stopped at, not the one before
RECURSIVE findSwitchpointFromStoppedAt(_, _, _)
findSwitchpointFromStoppedAt(sps, tod, i) ==
    IF i > Len(sps) THEN sps[Len(sps)]
    ELSE IF tod = sps[i].Time THEN sps[i]
    ELSE IF tod > sps[i].Time THEN findSwitchpointFromStoppedAt(sps, tod, i + 1)
    ELSE IF i = 1 THEN NilSetpoint
    ELSE sps[i]

\* the loop of findSwitchpoint, from index i on
RECURSIVE findSwitchpointFrom(_, _, _)
findSwitchpointFrom(sps, tod, i) ==
    IF i > Len(sps) THEN sps[Len(sps)]
    ELSE IF tod = sps[i].Time THEN sps[i]
    ELSE IF tod > sps[i].Time THEN findSwitchpointFrom(sps, tod, i + 1)
    ELSE IF i = 1 THEN NilSetpoint
    ELSE sps[i - 1]

findSwitchpoint(sps, t) ==
    IF Len(sps) = 0 THEN NilSetpoint
    ELSE findSwitchpointFrom(sps, TimeOfDay(t), 1)

\* sort.Slice(setpoints, ... Before ...) leaves the list ordered by time
IsSortedByTime(sps) ==
    \A i, j \in 1 .. Len(sps) : i < j => sps[i].Time <= sps[j].Time

\* the setpoint lists of the model: any times of day, in order, the i-th entry
\* with setpoint i
SetpointLists ==
    { sps \in UNION { [1 .. n -> [Time : Tods, Setpoint : 1 .. n]] : n \in 0 .. MaxSetpoints } :
        /\ IsSortedByTime(sps)
        /\ \A i \in DOMAIN sps : sps[i].Setpoint = i }

\* F of the TimedFunctionController: the linear function of the package's test,
\* the seconds since the epoch of a time given in hours
SetpointOverTime(t) == t * 3600

\* ConstantDiff with the operands exchanged
ConstantDiffExchanged(T, ghost) == ghost - T

\* diff := f.Target - c.Ghost
ConstantDiff(T, ghost) == T - ghost

\* diff := setpoint - c.Ghost
SwitchedDiff(sp, ghost) == sp - ghost

\* diff := target - c.Ghost
TimedDiff(tg, ghost) == tg - ghost

\* setpoint after the prologue of SwitchedSetpointController.Control
InitialSetpoint(dflt, sps, t) ==
    LET csp == findSwitchpoint(sps, t)
    IN  IF csp # NilSetpoint THEN csp.Setpoint ELSE dflt

\* nsp of the tick case of SwitchedSetpointController.Control
TickSetpoint(dflt, sps, t) ==
    LET csp == findSwitchpoint(sps, t)
    IN  IF csp # NilSetpoint THEN csp.Setpoint ELSE dflt

\* what a constructor returns in place of an object when it returns an error
NilObject == [kind |-> "nil"]

\* what sort.Slice with less = Time.Before can leave of sps (it is not stable)
SortedByTime(sps) ==
    { s \in { [i \in DOMAIN sps |-> sps[p[i]]] :
                p \in { q \in [DOMAIN sps -> DOMAIN sps] :
                          \A i, j \in DOMAIN sps : i # j => q[i] # q[j] } } :
        IsSortedByTime(s) }

\* NewSwitchedSetpointController: the results it can return
NewSwitchedSetpointController(defaultSetpoint, setpoints) ==
    IF defaultSetpoint < 0
    THEN { [val |-> NilObject, err |-> TRUE] }
    ELSE { [val |-> [kind |-> "switched", DefaultSetpoint |-> defaultSetpoint,
                     Setpoints |-> s],
            err |-> FALSE] : s \in SortedByTime(setpoints) }

\* NewController: the results it can return for the configuration c
NewController(c) ==
    CASE c.Kind = "constant" ->
           { [val |-> [kind |-> "constant", Target |-> c.Setpoint], err |-> FALSE] }
      [] c.Kind = "switchedConstant" ->
           NewSwitchedSetpointController(c.DefaultSetpoint, c.Setpoints)
      [] OTHER -> { [val |-> NilObject, err |-> TRUE] }

\* ------------------------------------------- controller.go: select cases
\* case c := <-workspaceCount, up to the blocking send res <- diff
CtlOnCount(ghost) ==
    /\ ctlPc = "select"
    /\ diff' = CASE kind = "constant" -> ConstantDiff(Target, ghost)
                 [] kind = "switched" -> SwitchedDiff(setpoint, ghost)
                 [] kind = "timed"    -> TimedDiff(target, ghost)
    /\ ctlPc' = "send"
    /\ UNCHANGED <<newTickerCalled, kind, Target, DefaultSetpoint, Setpoints, setpoint, target,
                   ctxDone, resClosed, tickerStopped, ctlNow, lastTick, changed>>

\* SwitchedOnTick calling SetpointChanged only when the setpoint changes
SwitchedOnTickChangedOnly(t) ==
    /\ kind = "switched"
    /\ ctlPc = "select"
    /\ LET nsp == TickSetpoint(DefaultSetpoint, Setpoints, t)
       IN  /\ changed' = IF setpoint # nsp THEN <<setpoint, nsp>> ELSE changed
           /\ setpoint' = nsp
    /\ lastTick' = t
    /\ UNCHANGED <<newTickerCalled, kind, Target, DefaultSetpoint, Setpoints, ctlPc,
                   target, diff, ctxDone, resClosed, tickerStopped, ctlNow>>

\* SwitchedOnTick without the assignment setpoint = nsp
SwitchedOnTickNotAssigned(t) ==
    /\ kind = "switched"
    /\ ctlPc = "select"
    /\ LET nsp == TickSetpoint(DefaultSetpoint, Setpoints, t)
       IN  changed' = <<setpoint, nsp>>
    /\ lastTick' = t
    /\ UNCHANGED <<newTickerCalled, kind, Target, DefaultSetpoint, Setpoints, ctlPc, setpoint, target,
                   diff, ctxDone, resClosed, tickerStopped, ctlNow>>

\* case t := <-tick of SwitchedSetpointController.Control
SwitchedOnTick(t) ==
    /\ kind = "switched"
    /\ ctlPc = "select"
    /\ LET nsp == TickSetpoint(DefaultSetpoint, Setpoints, t)
       IN  /\ changed' = <<setpoint, nsp>>
           /\ setpoint' = nsp
    /\ lastTick' = t
    /\ UNCHANGED <<newTickerCalled, kind, Target, DefaultSetpoint, Setpoints, ctlPc, target, diff,
                   ctxDone, resClosed, tickerStopped, ctlNow>>

\* TimedOnTick reporting target in place of sp
TimedOnTickReportsTarget(t) ==
    /\ kind = "timed"
    /\ ctlPc = "select"
    /\ changed' = <<target>>
    /\ lastTick' = t
    /\ UNCHANGED <<newTickerCalled, kind, Target, DefaultSetpoint, Setpoints, ctlPc,
                   setpoint, target, diff, ctxDone, resClosed, tickerStopped, ctlNow>>

\* case t := <-tick of TimedFunctionController.Control: sp is reported and dropped
TimedOnTick(t) ==
    /\ kind = "timed"
    /\ ctlPc = "select"
    /\ LET sp == SetpointOverTime(t)
       IN  changed' = <<sp>>
    /\ lastTick' = t
    /\ UNCHANGED <<newTickerCalled, kind, Target, DefaultSetpoint, Setpoints, ctlPc, setpoint, target,
                   diff, ctxDone, resClosed, tickerStopped, ctlNow>>

\* res <- diff completes: the consumer takes the value
CtlSendDelta ==
    /\ ctlPc = "send"
    /\ ctlPc' = "select"
    /\ UNCHANGED <<newTickerCalled, kind, Target, DefaultSetpoint, Setpoints, setpoint, target, diff,
                   ctxDone, resClosed, tickerStopped, ctlNow, lastTick, changed>>

\* case <-ctx.Done(): return, running the deferred close(res) and stop()
CtlExit ==
    /\ ctlPc = "select"
    /\ ctxDone
    /\ ctlPc' = "exited"
    /\ resClosed' = TRUE
    /\ tickerStopped' = (kind # "constant")
    /\ UNCHANGED <<newTickerCalled, kind, Target, DefaultSetpoint, Setpoints, setpoint, target, diff,
                   ctxDone, ctlNow, lastTick, changed>>

\* the locals of the controller goroutine when Control returns the channel
ControlInit ==
    /\ setpoint = IF kind = "switched"
                  THEN InitialSetpoint(DefaultSetpoint, Setpoints, ctlNow)
                  ELSE 0
    /\ target = 0
    /\ diff = 0
    /\ ctlPc = "select"
    /\ ctxDone = FALSE
    /\ resClosed = FALSE
    /\ tickerStopped = FALSE
    /\ lastTick = NoTick
    /\ changed = IF kind = "switched" /\ findSwitchpoint(Setpoints, ctlNow) # NilSetpoint
                 THEN <<DefaultSetpoint, findSwitchpoint(Setpoints, ctlNow).Setpoint>>
                 ELSE << >>
    /\ newTickerCalled = (kind # "constant")
    /\ obs = << >>
    /\ emitted = << >>
    /\ ticks = << >>
    /\ reported = << >>


\* ------------------------------------------------ run.go: the inventory
WsIds == 1 .. NumWs
Uuids == (NumWs + 1) .. (NumWs + NumUuid)
Ids == WsIds \cup Uuids
\* the zero string left in the slots of ids that startGhostWorkspaces never fills
EmptyId == 0

\* Spec.Type of a workspace: what the driver starts is a ghost, every second
\* workspace of the others belongs to a user
TypesOf(id) ==
    IF id \in WsIds /\ id % 2 = 1 THEN {"REGULAR", "PREBUILD"} ELSE {"GHOST"}

\* Metadata.StartedAt of a workspace: the users' workspaces are the oldest,
\* what the driver starts is the youngest
StartedAt(id) ==
    IF id \in Uuids THEN 2 ELSE (id + 1) % 2

workspaceState(id, type) == [Started |-> StartedAt(id), Type |-> type]

\* wss.Status of a GetWorkspaces response
Listings ==
    { st \in UNION { [D -> {"REGULAR", "PREBUILD", "GHOST"}] : D \in SUBSET Ids } :
        \A id \in DOMAIN st : st[id] \in TypesOf(id) }

WorkspacePhase == {"PENDING", "RUNNING", "STOPPED"}

Range(s) == { s[i] : i \in DOMAIN s }

ZeroStatus ==
    [Count |-> [Regular |-> 0, Prebuild |-> 0, Ghost |-> 0],
     DeletionCandidates |-> << >>]

\* the orders of the ids D of the map st in which no id started before one
\* that precedes it
RECURSIVE OrdersOf(_, _)
OrdersOf(st, D) ==
    IF D = {} THEN { << >> }
    ELSE UNION { { <<id>> \o s : s \in OrdersOf(st, D \ {id}) } :
                 id \in { i \in D : \A j \in D : st[i].Started <= st[j].Started } }

\* what sort.Slice with less = Started.Before can leave of the ids of the map
\* (range over a map has no order, and sort.Slice is not stable)
SortedByStarted(st) == OrdersOf(st, DOMAIN st)

\* produceStatus: the statuses it can return for the state map st
produceStatus(st) ==
    { [Count |-> [Regular  |-> Cardinality({id \in DOMAIN st : st[id].Type = "REGULAR"}),
                  Prebuild |-> Cardinality({id \in DOMAIN st : st[id].Type = "PREBUILD"}),
                  Ghost    |-> Cardinality({id \in DOMAIN st : st[id].Type = "GHOST"})],
       DeletionCandidates |-> s] : s \in SortedByStarted(st) }

\* ------------------------------- run.go: maintainWorkspaceStatus and its loop
\* GetWorkspaces, the state map built from it and the first produceStatus; an
\* error returns to the supervising loop of Run, which calls again.  A call
\* on a closed connection or with a cancelled context fails.
MaintainList ==
    /\ mPc = "list"
    /\ \/ /\ ~stopCalled
          /\ ~ctxDone
          /\ \E wss \in Listings :
               /\ state' = [id \in DOMAIN wss |-> workspaceState(id, wss[id])]
               /\ outStatus' \in produceStatus(state')
          /\ mPc' = "sendInit"
       \/ /\ state' = << >>
          /\ outStatus' = ZeroStatus
          /\ mPc' = "list"
    /\ UNCHANGED <<ctlVars, auxVars, drvPc, status, startingGhosts, now, stopCalled, lastOp>>

\* Subscribe
MaintainSubscribe ==
    /\ mPc = "subscribe"
    /\ \/ /\ ~stopCalled
          /\ ~ctxDone
          /\ mPc' = "recv"
          /\ UNCHANGED <<state, outStatus>>
       \/ /\ mPc' = "list"
          /\ state' = << >>
          /\ outStatus' = ZeroStatus
    /\ UNCHANGED <<ctlVars, auxVars, drvPc, status, startingGhosts, now, stopCalled, lastOp>>

\* OnEvent sending a status for every STOPPED event, of a known id or not
OnEventStoppedUnknownSends(id, phase, type) ==
    LET known == id \in DOMAIN state
    IN  IF phase = "STOPPED"
        THEN /\ state' = [i \in DOMAIN state \ {id} |-> state[i]]
             /\ outStatus' \in produceStatus(state')
             /\ mPc' = "send"
        ELSE IF ~known /\ phase = "PENDING"
        THEN /\ state' = [i \in DOMAIN state \cup {id} |->
                            IF i = id THEN workspaceState(id, type)
                            ELSE state[i]]
             /\ outStatus' \in produceStatus(state')
             /\ mPc' = "send"
        ELSE UNCHANGED <<mPc, state, outStatus>>

\* the body of the loop around sub.Recv() for an event with a status: what it
\* does with the state map and whether it goes on to send a status
OnEvent(id, phase, type) ==
    LET known == id \in DOMAIN state
    IN  IF known /\ phase = "STOPPED"
        THEN /\ state' = [i \in DOMAIN state \ {id} |-> state[i]]
             /\ outStatus' \in produceStatus(state')
             /\ mPc' = "send"
        ELSE IF ~known /\ phase = "PENDING"
        THEN /\ state' = [i \in DOMAIN state \cup {id} |->
                            IF i = id THEN workspaceState(id, type)
                            ELSE state[i]]
             /\ outStatus' \in produceStatus(state')
             /\ mPc' = "send"
        ELSE UNCHANGED <<mPc, state, outStatus>>

\* RecvError subscribing again, without a new call of GetWorkspaces
RecvErrorResubscribes ==
    /\ mPc' = "subscribe"
    /\ UNCHANGED <<state, outStatus>>

\* sub.Recv() returns an error: back to the supervising loop of Run
RecvError ==
    /\ mPc' = "list"
    /\ state' = << >>
    /\ outStatus' = ZeroStatus

\* one turn of the loop around sub.Recv()
MaintainRecv ==
    /\ mPc = "recv"
    /\ \/ /\ ~stopCalled
          /\ \E id \in Ids, phase \in WorkspacePhase, type \in {"REGULAR", "PREBUILD", "GHOST"} :
               /\ type \in TypesOf(id)
               /\ OnEvent(id, phase, type)
       \/ RecvError
    /\ UNCHANGED <<ctlVars, auxVars, drvPc, status, startingGhosts, now, stopCalled, lastOp>>

\* case <-ctx.Done() of the select around counts <- produceStatus(): return
\* ctx.Err(), on which the supervising loop returns
MaintainCtxDone ==
    /\ mPc \in {"sendInit", "send"}
    /\ ctxDone
    /\ mPc' = "returned"
    /\ UNCHANGED <<newTickerCalled, kind, Target, DefaultSetpoint, Setpoints, ctlPc, setpoint,
                   target, diff, ctxDone, resClosed, tickerStopped, ctlNow, lastTick, changed,
                   obs, emitted, ticks, reported, auxVars, state, outStatus, drvPc, status,
                   startingGhosts, now, stopCalled, lastOp>>

\* ----------------------------------------------- run.go: the driver's config
\* Config.MaxGhostWorkspaces
MaxGhostWorkspaces == 1
\* Config.Renewal.Percentage
RenewalPercentage == 50
\* Constant.Setpoint of the controller the driver runs
DriverSetpoint == 1
\* maxGhostStartTime, the unit of the wall clock
maxGhostStartTime == 1

\* NewWorkspaceManagerPrescaleDriver: what it returns for the configuration c
\* when grpc.Dial fails (dialFails) or not
NewWorkspaceManagerPrescaleDriver(c, dialFails) ==
    IF c.Percentage < 0 /\ 100 < c.Percentage
    THEN [val |-> NilObject, err |-> TRUE]
    ELSE IF dialFails
    THEN [val |-> NilObject, err |-> TRUE]
    ELSE [val |-> [kind |-> "driver", Percentage |-> c.Percentage], err |-> FALSE]

\* the configuration the driver of Spec and its controller were built from
DriverConfig ==
    [Percentage |-> RenewalPercentage, Kind |-> "constant", Setpoint |-> DriverSetpoint,
     DefaultSetpoint |-> 0, Setpoints |-> << >>, DialFails |-> FALSE]

NoResult == [fn |-> "none", val |-> NilObject, err |-> FALSE]

\* replay: how far a PENDING event for an unknown id followed by a STOPPED
\* event for the same id has come (step 1: inserted, step 2: removed again),
\* and the state map and the status sent last before the PENDING event
NoReplay == [step |-> 0, id |-> EmptyId, state0 |-> << >>, status0 |-> ZeroStatus]

\* lastEvent: no event delivered since maintainWorkspaceStatus was called (after
\* an error of sub.Recv(): phase "error", with the state map and status it ended)
NoEvent ==
    [id |-> EmptyId, phase |-> "", state0 |-> << >>, status0 |-> ZeroStatus, sent |-> FALSE]

\* lastOp: the event Run handled last (ev), the value it acted on (d),
\* status.Count.Ghost and the keys of startingGhosts when it began (g0, sg0),
\* the ids StopWorkspace was called with (stops), whether stopGhostWorkspaces
\* returned an error (serr), the count startGhostWorkspaces was called with
\* (count, 0 when it was not called), the ids StartWorkspace was called with
\* (starts), whether startGhostWorkspaces returned an error (err), the ids it
\* returned (ids), and the status taken from statusChan (recv)
NoOp ==
    [ev |-> "none", d |-> 0, g0 |-> 0, sg0 |-> {}, stops |-> << >>, serr |-> FALSE,
     count |-> 0, starts |-> << >>, err |-> FALSE, ids |-> << >>, recv |-> ZeroStatus]

\* instance ids uuid.NewRandom can still return: those no workspace carries
FreeIds ==
    Uuids \ (DOMAIN startingGhosts \cup DOMAIN state
             \cup Range(status.DeletionCandidates) \cup Range(outStatus.DeletionCandidates))

\* stopGhostWorkspaces(ids): the StopWorkspace calls it makes and whether it
\* returns an error.  NotFound counts as success; on a closed connection the
\* first call fails.
stopGhostWorkspaces(ids) ==
    { [calls |-> SubSeq(ids, 1, IF e = 0 THEN Len(ids) ELSE e), err |-> e # 0] :
        e \in IF stopCalled THEN (IF Len(ids) > 0 THEN {1} ELSE {0}) ELSE 0 .. Len(ids) }

\* the test that ends the loop of startGhostWorkspaces at the cap
CapReached(g, i) == g + i > MaxGhostWorkspaces

\* the loop of startGhostWorkspaces from iteration i on: ids as filled so far,
\* calls the instance ids StartWorkspace was called with
RECURSIVE startFrom(_, _, _, _, _)
startFrom(i, count, g, ids, calls) ==
    IF i >= count THEN { [ids |-> ids, err |-> FALSE, calls |-> calls] }
    ELSE IF CapReached(g, i) THEN { [ids |-> ids, err |-> FALSE, calls |-> calls] }
    ELSE UNION {
        (IF stopCalled THEN {}
         ELSE startFrom(i + 1, count, g, [ids EXCEPT ![i + 1] = id], Append(calls, id)))
        \cup { [ids |-> << >>, err |-> TRUE, calls |-> Append(calls, id)] }
        : id \in FreeIds \ Range(calls) }

\* startGhostWorkspaces(ctx, count, status)
startGhostWorkspaces(count, st) ==
    startFrom(0, count, st.Count.Ghost, [j \in 1 .. count |-> EmptyId], << >>)

\* RecordStarted without status.Count.Ghost++
RecordStartedNotCounted(ids) ==
    /\ startingGhosts' = [id \in DOMAIN startingGhosts \cup Range(ids) |->
                            IF id \in Range(ids) THEN now ELSE startingGhosts[id]]
    /\ status' = status

\* for _, id := range ids { startingGhosts[id] = time.Now(); status.Count.Ghost++ }
RecordStarted(ids) ==
    /\ startingGhosts' = [id \in DOMAIN startingGhosts \cup Range(ids) |->
                            IF id \in Range(ids) THEN now ELSE startingGhosts[id]]
    /\ status' = [status EXCEPT !.Count.Ghost = @ + Len(ids)]

\* ------------------------------------------------- run.go: the loop of Run
\* StatusUpdate without the removal of the deletion candidates from startingGhosts
StatusUpdateKeepsLanded ==
    /\ drvPc = "select"
    /\ mPc \in {"sendInit", "send"}
    /\ mPc' = IF mPc = "sendInit" THEN "subscribe" ELSE "recv"
    /\ startingGhosts' = startingGhosts
    /\ status' = [outStatus EXCEPT !.Count.Ghost = @ + Cardinality(DOMAIN startingGhosts)]
    /\ drvPc' = "sendCount"
    /\ lastOp' = [NoOp EXCEPT !.ev = "status", !.g0 = status.Count.Ghost,
                              !.sg0 = DOMAIN startingGhosts, !.recv = outStatus]
    /\ UNCHANGED <<ctlVars, auxVars, state, outStatus, now, stopCalled>>

\* case status = <-statusChan, up to the blocking send counts <- status.Count
StatusUpdate ==
    /\ drvPc = "select"
    /\ mPc \in {"sendInit", "send"}
    /\ mPc' = IF mPc = "sendInit" THEN "subscribe" ELSE "recv"
    /\ LET sg == [id \in DOMAIN startingGhosts \ Range(outStatus.DeletionCandidates) |->
                    startingGhosts[id]]
       IN  /\ startingGhosts' = sg
           /\ status' = [outStatus EXCEPT !.Count.Ghost = @ + Cardinality(DOMAIN sg)]
    /\ drvPc' = "sendCount"
    /\ lastOp' = [NoOp EXCEPT !.ev = "status", !.g0 = status.Count.Ghost,
                              !.sg0 = DOMAIN startingGhosts, !.recv = outStatus]
    /\ UNCHANGED <<ctlVars, auxVars, state, outStatus, now, stopCalled>>

\* counts <- status.Count completes: the controller takes the count
SendCount ==
    /\ drvPc = "sendCount"
    /\ CtlOnCount(status.Count.Ghost)
    /\ drvPc' = "select"
    /\ UNCHANGED <<auxVars, obs, emitted, ticks, reported, mPc, state, outStatus, status, startingGhosts, now,
                   stopCalled, lastOp>>

\* HouseKeeping keeping the entries that are exactly maxGhostStartTime old
HouseKeepingStrictlyOlder ==
    /\ drvPc = "select"
    /\ LET stale == { id \in DOMAIN startingGhosts :
                        now - startingGhosts[id] > maxGhostStartTime }
       IN  /\ startingGhosts' = [id \in DOMAIN startingGhosts \ stale |-> startingGhosts[id]]
           /\ status' = [status EXCEPT !.Count.Ghost = @ - Cardinality(stale)]
    /\ lastOp' = [NoOp EXCEPT !.ev = "houseKeeping", !.g0 = status.Count.Ghost,
                              !.sg0 = DOMAIN startingGhosts]
    /\ UNCHANGED <<ctlVars, auxVars, mPc, state, outStatus, drvPc, now, stopCalled>>

\* case <-houseKeeping.C
HouseKeeping ==
    /\ drvPc = "select"
    /\ LET stale == { id \in DOMAIN startingGhosts :
                        ~(now - startingGhosts[id] < maxGhostStartTime) }
       IN  /\ startingGhosts' = [id \in DOMAIN startingGhosts \ stale |-> startingGhosts[id]]
           /\ status' = [status EXCEPT !.Count.Ghost = @ - Cardinality(stale)]
    /\ lastOp' = [NoOp EXCEPT !.ev = "houseKeeping", !.g0 = status.Count.Ghost,
                              !.sg0 = DOMAIN startingGhosts]
    /\ UNCHANGED <<ctlVars, auxVars, mPc, state, outStatus, drvPc, now, stopCalled>>

\* RenewalCount rounding up
RenewalCountRoundedUp(n) ==
    LET d == (n * RenewalPercentage + 99) \div 100
    IN  IF d > n THEN n ELSE d

\* d of the renewal case: the product is positive, for which the conversion
\* of the float64 to int is the integer division
RenewalCount(n) ==
    LET d == (n * RenewalPercentage) \div 100
    IN  IF d > n THEN n ELSE d

\* case <-renewal
Renewal ==
    /\ drvPc = "select"
    /\ status.Count.Ghost < MaxGhostCount
    /\ LET d == RenewalCount(Len(status.DeletionCandidates))
           op == [NoOp EXCEPT !.ev = "renewal", !.d = d, !.g0 = status.Count.Ghost,
                              !.sg0 = DOMAIN startingGhosts]
       IN  IF d = 0
           THEN /\ lastOp' = op
                /\ UNCHANGED <<status, startingGhosts>>
           ELSE \E stop \in stopGhostWorkspaces(SubSeq(status.DeletionCandidates, 1, d)) :
                  IF stop.err
                  THEN /\ lastOp' = [op EXCEPT !.stops = stop.calls, !.serr = TRUE]
                       /\ UNCHANGED <<status, startingGhosts>>
                  ELSE \E start \in startGhostWorkspaces(d, status) :
                         /\ lastOp' = [op EXCEPT !.stops = stop.calls,
                                                 !.count = d,
                                                 !.starts = start.calls,
                                                 !.err = start.err,
                                                 !.ids = start.ids]
                         /\ IF start.err
                            THEN UNCHANGED <<status, startingGhosts>>
                            ELSE RecordStarted(start.ids)
    /\ UNCHANGED <<ctlVars, auxVars, mPc, state, outStatus, drvPc, now, stopCalled>>

\* StopCount clamping one short of the candidates
StopCountOneShort(delta, n) ==
    IF 0 - delta >= n THEN n - 1 ELSE 0 - delta

\* d after d *= -1 and the clamp to len(status.DeletionCandidates), for delta < 0
StopCount(delta, n) ==
    IF 0 - delta > n THEN n ELSE 0 - delta

\* case d := <-delta; the sleep of ReactionDelay changes nothing Run holds
DeltaEvent ==
    /\ drvPc = "select"
    /\ CtlSendDelta
    /\ LET op == [NoOp EXCEPT !.ev = "delta", !.d = diff, !.g0 = status.Count.Ghost,
                              !.sg0 = DOMAIN startingGhosts]
           n  == Len(status.DeletionCandidates)
           \* d after the d < 0 block
           d  == IF diff < 0 THEN StopCount(diff, n) ELSE diff
       IN  IF diff = 0
           THEN /\ lastOp' = op
                /\ UNCHANGED <<status, startingGhosts>>
           ELSE \E stop \in IF diff < 0
                            THEN stopGhostWorkspaces(SubSeq(status.DeletionCandidates, 1, d))
                            ELSE { [calls |-> << >>, err |-> FALSE] } :
                  IF d > 0
                  THEN \E start \in startGhostWorkspaces(d, status) :
                         /\ lastOp' = [op EXCEPT !.stops = stop.calls,
                                                 !.serr = stop.err,
                                                 !.count = d,
                                                 !.starts = start.calls,
                                                 !.err = start.err,
                                                 !.ids = start.ids]
                         /\ IF start.err
                            THEN UNCHANGED <<status, startingGhosts>>
                            ELSE RecordStarted(start.ids)
                  ELSE /\ lastOp' = [op EXCEPT !.stops = stop.calls, !.serr = stop.err]
                       /\ UNCHANGED <<status, startingGhosts>>
    /\ UNCHANGED <<auxVars, obs, emitted, ticks, reported, mPc, state, outStatus, drvPc, now, stopCalled>>

\* case <-ctx.Done(): return.  ctx is cancelled by the deferred cancel() of Run
\* alone, so no step of Run or of its goroutines makes this case ready.
RunReturn ==
    /\ drvPc = "select"
    /\ ctxDone
    /\ drvPc' = "returned"
    /\ UNCHANGED <<ctlVars, auxVars, mPc, state, outStatus, status, startingGhosts, now,
                   stopCalled, lastOp>>

\* Stop(): once.Do(close(wspd.stop); wspd.conn.Close())
Stop ==
    /\ ~stopCalled
    /\ stopCalled' = TRUE
    /\ UNCHANGED <<ctlVars, auxVars, mPc, state, outStatus, drvPc, status, startingGhosts, now,
                   lastOp>>

\* time passes
AdvanceTime ==
    /\ now < MaxTime
    /\ now' = now + 1
    /\ UNCHANGED <<ctlVars, auxVars, mPc, state, outStatus, drvPc, status, startingGhosts,
                   stopCalled, lastOp>>

\* the locals of Run when it enters its loop, maintainWorkspaceStatus about to list
DriverInit ==
    /\ mPc = "list"
    /\ state = << >>
    /\ outStatus = ZeroStatus
    /\ drvPc = "select"
    /\ status = ZeroStatus
    /\ startingGhosts = << >>
    /\ now = 0
    /\ stopCalled = FALSE
    /\ lastOp = NoOp

\* no event replayed, no constructor called
AuxInit ==
    /\ replay = NoReplay
    /\ lastEvent = NoEvent
    /\ config = DriverConfig
    /\ newResult = NoResult

Init ==
    /\ kind = "constant"
    /\ Target = DriverSetpoint
    /\ DefaultSetpoint = 0
    /\ Setpoints = << >>
    /\ ctlNow = 0
    /\ ControlInit
    /\ DriverInit
    /\ AuxInit

Next ==
    \/ MaintainList
    \/ MaintainSubscribe
    \/ MaintainRecv
    \/ StatusUpdate
    \/ SendCount
    \/ HouseKeeping
    \/ Renewal
    \/ DeltaEvent
    \/ Stop
    \/ AdvanceTime

Spec == Init /\ [][Next]_vars

\* -------------------------------------- the harness of the package's tests
\* inc <- WorkspaceCount{Ghost: g}
EnvSendCount ==
    /\ kind = "constant" => Len(obs) < MaxObs
    /\ \E g \in 0 .. MaxGhostIn :
        /\ CtlOnCount(g)
        /\ obs' = IF kind = "constant" THEN Append(obs, g) ELSE <<g>>
    /\ UNCHANGED <<emitted, ticks, reported, drvVars, auxVars>>

\* tick <- t, and for a TimedFunctionController act := <-tchan, the value its
\* SetpointChanged callback was called with
EnvTick ==
    /\ kind = "timed" => Len(ticks) < MaxTicks
    /\ \E t \in Times :
        /\ SwitchedOnTick(t) \/ TimedOnTick(t)
        /\ ticks' = IF kind = "timed" THEN Append(ticks, t) ELSE ticks
    /\ reported' = IF kind = "timed" THEN Append(reported, changed'[1]) ELSE reported
    /\ UNCHANGED <<obs, emitted, drvVars, auxVars>>

\* act := <-out
EnvRecvDelta ==
    /\ CtlSendDelta
    /\ emitted' = IF kind = "constant" THEN Append(emitted, diff) ELSE <<diff>>
    /\ UNCHANGED <<obs, ticks, reported, drvVars, auxVars>>

\* cancel()
EnvCancel ==
    /\ ~ctxDone
    /\ ctxDone' = TRUE
    /\ UNCHANGED <<newTickerCalled, kind, Target, DefaultSetpoint, Setpoints, ctlPc, setpoint, target,
                   diff, resClosed, tickerStopped, ctlNow, lastTick, changed, obs,
                   emitted, ticks, reported, drvVars, auxVars>>

\* the controller goroutine takes case <-ctx.Done()
EnvCtlExit ==
    /\ CtlExit
    /\ UNCHANGED <<obs, emitted, ticks, reported, drvVars, auxVars>>

\* the state right after Control has returned the channel
CtlInit ==
    /\ kind \in {"constant", "switched", "timed"}
    /\ Target \in IF kind = "constant" THEN 0 .. MaxGhostIn ELSE {0}
    /\ DefaultSetpoint = 0
    /\ Setpoints \in IF kind = "switched" THEN SetpointLists ELSE {<< >>}
    /\ ctlNow \in IF kind = "switched" THEN Tods ELSE {0}
    /\ ControlInit
    /\ DriverInit
    /\ AuxInit

CtlNext ==
    \/ EnvSendCount
    \/ EnvTick
    \/ EnvRecvDelta
    \/ EnvCancel
    \/ EnvCtlExit

CtlSpec == CtlInit /\ [][CtlNext]_vars

\* ------------------------- maintainWorkspaceStatus with a reader of its channel
\* the subscription delivers an event
EnvEvent ==
    /\ mPc = "recv"
    /\ \E id \in Ids, phase \in WorkspacePhase, type \in {"REGULAR", "PREBUILD", "GHOST"} :
         /\ type \in TypesOf(id)
         /\ OnEvent(id, phase, type)
         /\ replay' = IF id \notin DOMAIN state /\ phase = "PENDING"
                      THEN [step |-> 1, id |-> id, state0 |-> state, status0 |-> outStatus]
                      ELSE IF id \in DOMAIN state /\ phase = "STOPPED"
                      THEN IF replay.step = 1 /\ replay.id = id
                           THEN [replay EXCEPT !.step = 2]
                           ELSE NoReplay
                      ELSE replay
         /\ lastEvent' = [id |-> id, phase |-> phase, state0 |-> state,
                          status0 |-> outStatus, sent |-> (mPc' = "send")]
    /\ UNCHANGED <<ctlVars, drvPc, status, startingGhosts, now, stopCalled, lastOp,
                   config, newResult>>

\* the subscription breaks
EnvRecvError ==
    /\ mPc = "recv"
    /\ RecvError
    /\ replay' = NoReplay
    /\ lastEvent' = [NoEvent EXCEPT !.phase = "error", !.state0 = state,
                                    !.status0 = outStatus]
    /\ UNCHANGED <<ctlVars, drvPc, status, startingGhosts, now, stopCalled, lastOp,
                   config, newResult>>

\* the reader takes the status from the channel: counts <- produceStatus() completes
EnvTakeStatus ==
    /\ mPc \in {"sendInit", "send"}
    /\ mPc' = IF mPc = "sendInit" THEN "subscribe" ELSE "recv"
    /\ UNCHANGED <<ctlVars, auxVars, state, outStatus, drvPc, status, startingGhosts,
                   now, stopCalled, lastOp>>

MaintNext ==
    \/ MaintainList
    \/ MaintainSubscribe
    \/ EnvEvent
    \/ EnvRecvError
    \/ EnvTakeStatus
    \/ EnvCancel
    \/ MaintainCtxDone

MaintSpec == Init /\ [][MaintNext]_vars

\* the workspace manager answers: a GetWorkspaces call that can succeed does
\* at some point; the reader keeps reading: a status on offer is taken unless
\* the select takes <-ctx.Done() first
MaintFairSpec ==
    /\ MaintSpec
    /\ WF_vars(MaintainList /\ mPc' = "sendInit")
    /\ WF_vars(EnvTakeStatus \/ MaintainCtxDone)

\* ------------------------------------------------------ the constructors
\* the setpoint lists of a configuration, in any order of their times
ConfigSetpoints ==
    { sps \in UNION { [1 .. n -> [Time : Tods, Setpoint : 1 .. n]] : n \in 0 .. MaxSetpoints } :
        \A i \in DOMAIN sps : sps[i].Setpoint = i }

\* the configurations the constructors are called with
Configs ==
    [Percentage : ((0 - ConfigMargin) .. ConfigMargin)
                  \cup ((100 - ConfigMargin) .. (100 + ConfigMargin)),
     Kind : {"constant", "switchedConstant", "timedFunction", ""},
     Setpoint : {DriverSetpoint},
     DefaultSetpoint : (0 - ConfigMargin) .. ConfigMargin,
     Setpoints : ConfigSetpoints,
     DialFails : BOOLEAN]

CallNewDriver ==
    /\ LET r == NewWorkspaceManagerPrescaleDriver(config, config.DialFails)
       IN  newResult' = [fn |-> "NewWorkspaceManagerPrescaleDriver",
                         val |-> r.val, err |-> r.err]
    /\ UNCHANGED <<ctlVars, drvVars, replay, lastEvent, config>>

CallNewSwitchedSetpointController ==
    /\ \E r \in NewSwitchedSetpointController(config.DefaultSetpoint, config.Setpoints) :
         newResult' = [fn |-> "NewSwitchedSetpointController",
                       val |-> r.val, err |-> r.err]
    /\ UNCHANGED <<ctlVars, drvVars, replay, lastEvent, config>>

CallNewController ==
    /\ \E r \in NewController(config) :
         newResult' = [fn |-> "NewController", val |-> r.val, err |-> r.err]
    /\ UNCHANGED <<ctlVars, drvVars, replay, lastEvent, config>>

NewInit ==
    /\ kind = "constant"
    /\ Target = DriverSetpoint
    /\ DefaultSetpoint = 0
    /\ Setpoints = << >>
    /\ ctlNow = 0
    /\ ControlInit
    /\ DriverInit
    /\ replay = NoReplay
    /\ lastEvent = NoEvent
    /\ config \in Configs
    /\ newResult = NoResult

NewNext ==
    \/ CallNewDriver
    \/ CallNewSwitchedSetpointController
    \/ CallNewController

NewSpec == NewInit /\ [][NewNext]_vars

\* the fairness of the Go scheduler: the supervising goroutine of
\* maintainWorkspaceStatus and the loop of Run each take a step they can take
FairSpec ==
    /\ Spec
    /\ WF_vars(MaintainList \/ MaintainSubscribe \/ MaintainRecv)
    /\ WF_vars(StatusUpdate \/ SendCount \/ HouseKeeping \/ Renewal \/ DeltaEvent \/ RunReturn)

\* the fairness of select in the controller goroutine: a select that is
\* reached again and again with ctx.Done() ready takes that case at some point
CtlFairSpec == CtlSpec /\ SF_vars(EnvCtlExit)

\* ------------------------------------------------------------------ claims
IsGhostId(id) == TypesOf(id) = {"GHOST"}

Min(a, b) == IF a < b THEN a ELSE b
Max(a, b) == IF a > b THEN a ELSE b

\* C1: every id the driver passes to StopWorkspace, on a negative delta or on
\* a renewal tick, is the id of a workspace of type GHOST.
C1_OnlyGhostsStopped ==
    \A i \in DOMAIN lastOp.stops : IsGhostId(lastOp.stops[i])

\* C2: handling a delta d < 0 issues no StartWorkspace call, adds no entry to
\* startingGhosts and does not increment status.Count.Ghost.
C2_NegativeDeltaOnlyStops ==
    (lastOp.ev = "delta" /\ lastOp.d < 0) =>
        /\ lastOp.starts = << >>
        /\ lastOp.ids = << >>
        /\ status.Count.Ghost = lastOp.g0

\* C3: a start request of d ghosts made at status.Count.Ghost = g issues
\* exactly min(d, max(0, MaxGhostWorkspaces - g)) StartWorkspace calls when
\* no call fails, and none at all when g >= MaxGhostWorkspaces.
C3_StartsRespectCap ==
    lastOp.count > 0 =>
        /\ Len(lastOp.starts) <= Min(lastOp.count, Max(0, MaxGhostWorkspaces - lastOp.g0))
        /\ ~lastOp.err =>
             Len(lastOp.starts) = Min(lastOp.count, Max(0, MaxGhostWorkspaces - lastOp.g0))

\* C4: the driver is never blocked sending a count to the controller while
\* the controller is blocked sending a delta to the driver.
C4_NoMutualBlock ==
    ~(drvPc = "sendCount" /\ ctlPc = "send")

\* C5: the delta the TimedFunctionController offers for a count is
\* f(t) - ghost for the last tick t it received before the count, and
\* 0 - ghost when it has received no tick.
C5_TimedDelta ==
    (kind = "timed" /\ ctlPc = "send") =>
        diff = (IF lastTick = NoTick THEN 0 ELSE SetpointOverTime(lastTick)) - obs[Len(obs)]

\* C6: once Stop() has been called, Run eventually leaves its loop and returns.
C6_StopEndsRun ==
    stopCalled ~> (drvPc = "returned")

\* C7: once the context of Control is cancelled, the controller goroutine
\* eventually exits and closes its delta channel, also when a delta it has
\* computed has not been received.
C7_CancelClosesDelta ==
    ctxDone ~> resClosed

\* C8: the k-th delta of the ConstantSetpointController is Target minus the
\* ghost count of the k-th count it received.
C8_ConstantDelta ==
    kind = "constant" =>
        /\ Len(emitted) <= Len(obs)
        /\ \A k \in 1 .. Len(emitted) : emitted[k] = Target - obs[k]
        /\ ctlPc = "send" => diff = Target - obs[Len(obs)]

C8_Witness ==
    /\ kind = "constant"
    /\ Len(emitted) = MaxObs
    /\ emitted[1] > 0
    /\ emitted[MaxObs] < 0

\* the entries of sps with the latest time of day that is not after tod
LatestNotAfter(sps, tod) ==
    { i \in DOMAIN sps :
        /\ sps[i].Time <= tod
        /\ \A j \in DOMAIN sps : sps[j].Time <= tod => sps[j].Time <= sps[i].Time }

\* sp is what the claim resolves for time t
ResolvesTo(sps, dflt, t, sp) ==
    IF LatestNotAfter(sps, t % DayLen) = {}
    THEN sp = dflt
    ELSE \E i \in LatestNotAfter(sps, t % DayLen) : sp = sps[i].Setpoint

C10_SwitchedDelta ==
    (kind = "switched" /\ ctlPc = "send") =>
        ResolvesTo(Setpoints, DefaultSetpoint,
                   IF lastTick = NoTick THEN ctlNow ELSE lastTick,
                   diff + obs[Len(obs)])

\* a second count was taken after a tick that changed the setpoint, and its
\* delta differs from the first
C10_Witness ==
    /\ kind = "switched"
    /\ ctlPc = "send"
    /\ lastTick # NoTick
    /\ Len(changed) = 2
    /\ changed[1] # changed[2]
    /\ emitted # << >>
    /\ diff # emitted[1]

\* s is the start of t
IsPrefix(s, t) ==
    /\ Len(s) <= Len(t)
    /\ \A i \in 1 .. Len(s) : s[i] = t[i]

\* C11 as claimed: handling a delta d < 0 with n deletion candidates issues
\* StopWorkspace for exactly the first min(|d|, n) candidates, in their order.
C11_StopsFirstCandidates ==
    (lastOp.ev = "delta" /\ lastOp.d < 0) =>
        lastOp.stops = SubSeq(status.DeletionCandidates, 1,
                              Min(0 - lastOp.d, Len(status.DeletionCandidates)))

\* C11 as amended: handling a delta d < 0 with n deletion candidates issues
\* StopWorkspace for the first min(|d|, n) candidates, in their order, up to
\* the first call that fails with an error other than NotFound; when no call
\* fails it is all of them, with n = 0 it is none, and no call is made for
\* anything past the candidate list.
C11_StopsFirstCandidatesUnlessError ==
    (lastOp.ev = "delta" /\ lastOp.d < 0) =>
        LET n == Len(status.DeletionCandidates)
            first == SubSeq(status.DeletionCandidates, 1, Min(0 - lastOp.d, n))
        IN  /\ IsPrefix(lastOp.stops, first)
            /\ ~lastOp.serr => lastOp.stops = first
            /\ lastOp.serr => lastOp.stops # << >>
            /\ n = 0 => lastOp.stops = << >>

\* a delta asked to stop more than there are candidates, and every candidate
\* was stopped
C11_Witness ==
    /\ lastOp.ev = "delta"
    /\ lastOp.d < 0
    /\ 0 - lastOp.d > Len(status.DeletionCandidates)
    /\ Len(status.DeletionCandidates) > 0
    /\ ~lastOp.serr
    /\ lastOp.stops = status.DeletionCandidates

\* C12: after the driver has processed a start request, made when
\* status.Count.Ghost was at most MaxGhostWorkspaces, status.Count.Ghost is
\* at most MaxGhostWorkspaces.
C12_GhostWithinCapAfterStart ==
    (lastOp.count > 0 /\ lastOp.g0 <= MaxGhostWorkspaces) =>
        status.Count.Ghost <= MaxGhostWorkspaces

\* d of a renewal tick as the claim C13 gives it
FloorPercent(n, p) == Min(n, (n * p) \div 100)

\* C13 as claimed: a renewal tick with n deletion candidates issues exactly
\* d = min(n, floor(n * p / 100)) StopWorkspace calls, for the first d
\* candidates, and then exactly d StartWorkspace calls; nothing when d = 0.
C13_RenewalStopsAndStarts ==
    lastOp.ev = "renewal" =>
        LET d == FloorPercent(Len(status.DeletionCandidates), RenewalPercentage)
        IN  /\ lastOp.stops = SubSeq(status.DeletionCandidates, 1, d)
            /\ Len(lastOp.starts) = d

\* C13 as amended: a renewal tick with n deletion candidates works on
\* d = min(n, floor(n * p / 100)).  With d = 0 it does nothing.  Otherwise it
\* issues StopWorkspace for the first d candidates, in order, up to the first
\* failing call; if a call failed it starts nothing; if none failed it asks
\* startGhostWorkspaces for d ghosts, which issues at most d StartWorkspace
\* calls, and exactly d when no call fails and the cap test never ends the loop.
C13_RenewalStopsThenRequestsStarts ==
    lastOp.ev = "renewal" =>
        LET d == FloorPercent(Len(status.DeletionCandidates), RenewalPercentage)
            first == SubSeq(status.DeletionCandidates, 1, d)
        IN  /\ lastOp.d = d
            /\ d = 0 => /\ lastOp.stops = << >>
                        /\ lastOp.count = 0
                        /\ lastOp.starts = << >>
                        /\ status.Count.Ghost = lastOp.g0
                        /\ DOMAIN startingGhosts = lastOp.sg0
            /\ d > 0 => /\ IsPrefix(lastOp.stops, first)
                        /\ lastOp.serr => /\ lastOp.count = 0
                                          /\ lastOp.starts = << >>
                        /\ ~lastOp.serr => /\ lastOp.stops = first
                                           /\ lastOp.count = d
                                           /\ Len(lastOp.starts) <= d
                        /\ (~lastOp.serr /\ ~lastOp.err
                              /\ \A i \in 0 .. (d - 1) : ~CapReached(lastOp.g0, i))
                             => Len(lastOp.starts) = d

\* a renewal tick stopped the oldest candidate and started a ghost in its place
C13_Witness ==
    /\ lastOp.ev = "renewal"
    /\ lastOp.d > 0
    /\ ~lastOp.serr
    /\ ~lastOp.err
    /\ lastOp.stops = SubSeq(status.DeletionCandidates, 1, lastOp.d)
    /\ Len(lastOp.starts) = lastOp.d
    /\ Range(lastOp.starts) \subseteq DOMAIN startingGhosts

\* C14: a constructor called with an invalid configuration returns an error
\* and no object: NewWorkspaceManagerPrescaleDriver with a renewal percentage
\* below 0 or above 100, NewSwitchedSetpointController with a negative
\* default setpoint, NewController with an unknown kind.
C14_InvalidConfigRejected ==
    LET rejected == newResult.err /\ newResult.val = NilObject
    IN  /\ (/\ newResult.fn = "NewWorkspaceManagerPrescaleDriver"
             /\ (config.Percentage < 0 \/ config.Percentage > 100)) => rejected
        /\ (/\ newResult.fn = "NewSwitchedSetpointController"
             /\ config.DefaultSetpoint < 0) => rejected
        /\ (/\ newResult.fn = "NewController"
             /\ config.Kind \notin {"constant", "switchedConstant"}) => rejected

\* C15: Control of the TimedFunctionController obtains its ticker from
\* NewTicker, and the k-th tick, at time t, causes the k-th SetpointChanged
\* call, which carries f(t), f being the seconds since the epoch (3600 for
\* each hour): one call for each tick, in the order of the ticks.
C15_TimedSetpointChanged ==
    kind = "timed" =>
        /\ newTickerCalled
        /\ Len(reported) = Len(ticks)
        /\ \A k \in 1 .. Len(ticks) : reported[k] = ticks[k] * 3600
        /\ ticks # << >> => changed = <<lastTick * 3600>>

\* two ticks at different hours were reported, each with its own value
C15_Witness ==
    /\ kind = "timed"
    /\ Len(ticks) = MaxTicks
    /\ 0 < ticks[1]
    /\ ticks[1] < ticks[MaxTicks]
    /\ reported[1] = ticks[1] * 3600
    /\ reported[MaxTicks] = ticks[MaxTicks] * 3600

\* C16 as claimed: every call of the SetpointChanged callback of the
\* SwitchedSetpointController has old # new; a tick that leaves the active
\* setpoint unchanged makes no call.
C16_CallbackOnlyOnChange ==
    (kind = "switched" /\ changed # << >>) => changed[1] # changed[2]

\* C16 as amended: the SwitchedSetpointController calls SetpointChanged(old,
\* new) on every tick, with old the setpoint it held before the tick and new
\* the setpoint resolved for the tick, which it holds afterwards: whenever the
\* active setpoint changes, and with old = new on a tick that leaves it
\* unchanged.
C16_CallbackOnEveryTick ==
    /\ [](kind = "switched" =>
            /\ lastTick # NoTick =>
                 /\ Len(changed) = 2
                 /\ changed[2] = setpoint
                 /\ ResolvesTo(Setpoints, DefaultSetpoint, lastTick, changed[2])
            /\ (lastTick = NoTick /\ changed # << >>) =>
                 changed = <<DefaultSetpoint, setpoint>>)
    /\ [][(kind = "switched" /\ (lastTick' # lastTick \/ changed' # changed)) =>
            changed' = <<setpoint, setpoint'>>]_vars

\* a tick left the setpoint of an entry of the list unchanged, and the
\* callback was called with old = new
C16_Witness ==
    /\ kind = "switched"
    /\ lastTick # NoTick
    /\ Len(changed) = 2
    /\ changed[1] = changed[2]
    /\ changed[2] # DefaultSetpoint

\* C17: after a PENDING event for an id the state map does not hold and then
\* a STOPPED event for the same id, the state map and the status sent are
\* what they were before the two events.
C17_InsertThenStopRestores ==
    replay.step = 2 =>
        /\ state = replay.state0
        /\ outStatus = replay.status0

\* the StartWorkspace calls of the last start batch that succeeded: all of
\* them, or all but the last when startGhostWorkspaces returned an error
Succeeded ==
    IF lastOp.err
    THEN SubSeq(lastOp.starts, 1, Len(lastOp.starts) - 1)
    ELSE lastOp.starts

\* C18: after a start batch the ids added to startingGhosts are exactly the
\* instance ids of the StartWorkspace calls of the batch that succeeded,
\* status.Count.Ghost has grown by their number, and every key of
\* startingGhosts is an instance id the driver generated.
C18_StartingGhostsAreStarted ==
    lastOp.count > 0 =>
        /\ DOMAIN startingGhosts \ lastOp.sg0 = Range(Succeeded)
        /\ status.Count.Ghost = lastOp.g0 + Len(Succeeded)
        /\ DOMAIN startingGhosts \subseteq Uuids

\* C19: when a status arrives the driver removes from startingGhosts every
\* id among the status's deletion candidates, and the count it then sends to
\* the controller has the regular and prebuild counts of the status and, as
\* its ghost count, the ghost count of the status plus the number of entries
\* left in startingGhosts; no id is counted both as observed and as starting.
C19_EffectiveGhostCount ==
    lastOp.ev = "status" =>
        /\ DOMAIN startingGhosts = lastOp.sg0 \ Range(lastOp.recv.DeletionCandidates)
        /\ status.Count.Regular = lastOp.recv.Count.Regular
        /\ status.Count.Prebuild = lastOp.recv.Count.Prebuild
        /\ status.Count.Ghost = lastOp.recv.Count.Ghost + Cardinality(DOMAIN startingGhosts)
        /\ DOMAIN startingGhosts \cap Range(status.DeletionCandidates) = {}
        /\ (drvPc = "select" /\ ctlPc = "send") =>
             diff = Target - (lastOp.recv.Count.Ghost + Cardinality(DOMAIN startingGhosts))

\* a ghost the driver had started has appeared among the candidates of a
\* status, its entry is gone, and the count sent counts it once
C19_Witness ==
    /\ lastOp.ev = "status"
    /\ lastOp.sg0 \cap Range(lastOp.recv.DeletionCandidates) # {}
    /\ lastOp.sg0 \cap Uuids # {}
    /\ drvPc = "select"
    /\ ctlPc = "send"
    /\ diff = Target - lastOp.recv.Count.Ghost

\* C20: in every state of the driver, before and after the first status and
\* across status updates, delta events, renewal ticks and housekeeping ticks,
\* 0 <= |startingGhosts| <= status.Count.Ghost.
C20_StartingGhostsWithinGhostCount ==
    /\ 0 <= Cardinality(DOMAIN startingGhosts)
    /\ Cardinality(DOMAIN startingGhosts) <= status.Count.Ghost

\* a start from an inventory without ghosts: every ghost counted is a
\* starting one
C20_Witness ==
    /\ lastOp.count > 0
    /\ lastOp.starts # << >>
    /\ DOMAIN startingGhosts # {}
    /\ Cardinality(DOMAIN startingGhosts) = status.Count.Ghost

\* the entries of startingGhosts that are at least maxGhostStartTime old
Stale ==
    { id \in DOMAIN startingGhosts : now - startingGhosts[id] >= maxGhostStartTime }

\* C21: a housekeeping tick removes from startingGhosts exactly the entries
\* that are at least maxGhostStartTime old, decreases status.Count.Ghost by
\* one for each entry removed, leaves the younger entries, the other counts
\* and status.DeletionCandidates as they were, and issues no StartWorkspace
\* and no StopWorkspace call.
C21_HouseKeepingRemovesStale ==
    /\ [](lastOp.ev = "houseKeeping" =>
            /\ lastOp.stops = << >>
            /\ lastOp.count = 0
            /\ lastOp.starts = << >>
            /\ lastOp.ids = << >>
            /\ DOMAIN startingGhosts \subseteq lastOp.sg0
            /\ status.Count.Ghost =
                 lastOp.g0 - Cardinality(lastOp.sg0 \ DOMAIN startingGhosts))
    /\ [][(/\ lastOp'.ev = "houseKeeping"
           /\ <<lastOp, startingGhosts, status>>' # <<lastOp, startingGhosts, status>>) =>
            /\ DOMAIN startingGhosts' = DOMAIN startingGhosts \ Stale
            /\ \A id \in DOMAIN startingGhosts' : startingGhosts'[id] = startingGhosts[id]
            /\ status'.Count.Ghost = status.Count.Ghost - Cardinality(Stale)
            /\ status'.Count.Regular = status.Count.Regular
            /\ status'.Count.Prebuild = status.Count.Prebuild
            /\ status'.DeletionCandidates = status.DeletionCandidates]_vars

\* a housekeeping tick removed an entry that was exactly maxGhostStartTime
\* old and kept a younger one
C21_Witness ==
    /\ lastOp.ev = "houseKeeping"
    /\ lastOp.sg0 \ DOMAIN startingGhosts # {}
    /\ DOMAIN startingGhosts # {}
    /\ \A id \in DOMAIN startingGhosts : now - startingGhosts[id] < maxGhostStartTime
    /\ now = maxGhostStartTime
    /\ status.Count.Ghost = lastOp.g0 - Cardinality(lastOp.sg0 \ DOMAIN startingGhosts)

\* C22: the maintainer changes its state map and sends a status only for a
\* STOPPED event of an id the map holds (the id is removed) and for a PENDING
\* event of an id the map does not hold (the id is inserted); any other event
\* leaves the map as it was and sends nothing; and in every status sent,
\* Regular + Prebuild + Ghost is the number of ids of the map.
C22_EventFrame ==
    /\ mPc \in {"sendInit", "send"} =>
         outStatus.Count.Regular + outStatus.Count.Prebuild + outStatus.Count.Ghost
           = Cardinality(DOMAIN state)
    /\ lastEvent.id # EmptyId =>
         LET id == lastEvent.id
             known == id \in DOMAIN lastEvent.state0
         IN  /\ (known /\ lastEvent.phase = "STOPPED") =>
                  /\ DOMAIN state = DOMAIN lastEvent.state0 \ {id}
                  /\ \A i \in DOMAIN state : state[i] = lastEvent.state0[i]
                  /\ lastEvent.sent
             /\ (~known /\ lastEvent.phase = "PENDING") =>
                  /\ DOMAIN state = DOMAIN lastEvent.state0 \cup {id}
                  /\ \A i \in DOMAIN lastEvent.state0 : state[i] = lastEvent.state0[i]
                  /\ lastEvent.sent
             /\ (~(known /\ lastEvent.phase = "STOPPED")
                   /\ ~(~known /\ lastEvent.phase = "PENDING")) =>
                  /\ state = lastEvent.state0
                  /\ outStatus = lastEvent.status0
                  /\ ~lastEvent.sent
                  /\ mPc = "recv"
             /\ lastEvent.sent =>
                  /\ mPc \in {"send", "recv", "returned"}
                  /\ outStatus \in produceStatus(state)

\* a STOPPED event removed one of two ids the map held, and the status of
\* the id left is being sent
C22_Witness ==
    /\ lastEvent.phase = "STOPPED"
    /\ lastEvent.id \in DOMAIN lastEvent.state0
    /\ lastEvent.id \notin DOMAIN state
    /\ Cardinality(DOMAIN state) = 1
    /\ mPc = "send"
    /\ outStatus.Count.Regular + outStatus.Count.Prebuild + outStatus.Count.Ghost = 1
    /\ outStatus # lastEvent.status0

\* the setpoint a controller has resolved last: Target, the setpoint of the
\* last tick (of Now() at the call of Control before any tick), f of the
\* time of the last tick (0 before any tick)
ActiveSetpoint ==
    CASE kind = "constant" -> Target
      [] kind = "switched" ->
           TickSetpoint(DefaultSetpoint, Setpoints,
                        IF lastTick = NoTick THEN ctlNow ELSE lastTick)
      [] kind = "timed" ->
           IF lastTick = NoTick THEN 0 ELSE SetpointOverTime(lastTick)

\* counts and deltas alternate, so the k-th delta answers the k-th count; a
\* delta is computed when a count is taken and offered as computed; a tick
\* changes neither the delta on offer nor what has been emitted
OneDeltaPerCount ==
    /\ [](kind = "constant" =>
            /\ Len(emitted) <= Len(obs)
            /\ Len(obs) <= Len(emitted) + 1
            /\ ctlPc = "send" <=> Len(obs) = Len(emitted) + 1)
    /\ [][/\ (obs' # obs \/ (ctlPc = "select" /\ ctlPc' = "send")) =>
             /\ ctlPc = "select"
             /\ ctlPc' = "send"
             /\ emitted' = emitted
          /\ (emitted' # emitted \/ (ctlPc = "send" /\ ctlPc' # "send")) =>
             /\ ctlPc = "send"
             /\ ctlPc' = "select"
             /\ emitted'[Len(emitted')] = diff
             /\ diff' = diff
             /\ obs' = obs
          /\ (lastTick' # lastTick \/ changed' # changed \/ ticks' # ticks) =>
             /\ ctlPc = "select"
             /\ UNCHANGED <<ctlPc, diff, obs, emitted>>]_vars

\* C23: every controller emits exactly one delta for each count it receives,
\* in the order of the counts, and none for a tick; the setpoint resolved on
\* a tick is what the delta of the next count is computed from.
C23_OneDeltaPerCountNoneOnTick ==
    /\ OneDeltaPerCount
    /\ [](ctlPc = "send" => diff = ActiveSetpoint - obs[Len(obs)])

\* id a comes before id b: a started earlier, or at the same time with the
\* smaller id
Before(st, a, b) ==
    \/ st[a].Started < st[b].Started
    \/ st[a].Started = st[b].Started /\ a < b

\* C24: in every status the maintainer sends, DeletionCandidates is in
\* ascending order of startedAt, ids with the same startedAt in the order of
\* the ids: the one sequence the state map determines.
C24_CandidatesOrderedTiesById ==
    mPc \in {"sendInit", "send"} =>
        \A i, j \in DOMAIN outStatus.DeletionCandidates :
            i < j => Before(state, outStatus.DeletionCandidates[i],
                            outStatus.DeletionCandidates[j])

\* the state maps a GetWorkspaces response can give
Snapshots ==
    { [id \in DOMAIN wss |-> workspaceState(id, wss[id])] : wss \in Listings }

\* C25: when GetWorkspaces, Subscribe or sub.Recv() fails, the supervising
\* loop calls maintainWorkspaceStatus again, which starts from an empty state
\* map and a new GetWorkspaces snapshot; the first status offered then is
\* derived from that snapshot, and it is taken at some point when the
\* workspace manager answers and the reader keeps reading, unless the context
\* is cancelled; when a send ends on <-ctx.Done() the supervising loop
\* returns, and no status is offered after that.
C25_RestartFromSnapshot ==
    /\ [](/\ mPc = "list" => (state = << >> /\ outStatus = ZeroStatus)
          /\ mPc = "sendInit" => (state \in Snapshots /\ outStatus \in produceStatus(state)))
    /\ [][/\ mPc = "list" => mPc' \in {"list", "sendInit"}
          /\ mPc = "subscribe" => mPc' \in {"subscribe", "recv", "list"}
          /\ mPc = "recv" => mPc' \in {"recv", "send", "list"}
          /\ mPc = "sendInit" => mPc' \in {"sendInit", "subscribe", "returned"}
          /\ mPc = "send" => mPc' \in {"send", "recv", "returned"}
          /\ (mPc' = "returned" /\ mPc # "returned") => ctxDone
          /\ mPc = "returned" =>
                (mPc' = "returned" /\ state' = state /\ outStatus' = outStatus)]_vars
    /\ (mPc = "list") ~> (mPc = "subscribe" \/ ctxDone)

\* sub.Recv() failed on a state map with a workspace, and the status of a
\* new, different snapshot has been taken by the reader
C25_Witness ==
    /\ lastEvent.phase = "error"
    /\ lastEvent.state0 # << >>
    /\ mPc = "subscribe"
    /\ state # lastEvent.state0
    /\ state # << >>
    /\ outStatus \in produceStatus(state)
    /\ outStatus # lastEvent.status0

====
